---- MODULE Spec2Model ----
(***************************************************************************)
(* Model of generate_reviews.py: a single-shot batch script that asks an   *)
(* LLM for product ideas, looks each product up through PA-API, downloads  *)
(* an image, asks the LLM for review copy, writes one HTML page per        *)
(* product and inserts cards into index.html.                              *)
(*                                                                         *)
(* Strings are sequences of one-character strings.  Durations are in       *)
(* tenths of a second (1.0 s = 10, 0.5 s = 5, 1.2 s = 12).                 *)
(***************************************************************************)
EXTENDS Integers, Sequences, FiniteSets, TLC

VARIABLES
    env,            \* os.environ: the four variables the module reads
    pc,             \* position of the script
    dirs,           \* directories created by the module (lines 43-44)
    reviews,        \* reviews/*.html written in this run: filename -> page
    images,         \* reviews/images/*: filename -> "complete" | "partial"
    index,          \* index.html
    index_before,   \* index.html as it was when the run started
    products,       \* main: products
    idx,            \* main: position of the for loop (1-based)
    new_reviews,    \* main: new_reviews
    loc,            \* locals of the current / last generate_review call
    attempt,        \* retryable.wrapper: attempt
    last_call,      \* the most recent outbound HTTP request
    slept,          \* time.sleep since the most recent request (0: none)
    call,           \* unit harness: arguments of the function under check
    ret             \* unit harness: what it has done so far

vars == <<env, pc, dirs, reviews, images, index, index_before, products, idx,
          new_reviews, loc, attempt, last_call, slept, call, ret>>

runVars == <<env, pc, dirs, reviews, images, index, index_before, products,
             idx, new_reviews, loc, attempt, last_call, slept>>

(***************************************************************************)
(* Bounds of the model                                                     *)
(***************************************************************************)
MaxLines == 2          \* lines in the LLM's product-idea answer
MaxOld == 2            \* children of the reviews grid before the run
MaxAttempts == 5       \* largest max_attempts tried on retryable
MaxSuffix == 3         \* free characters at the end of a slugified string

(***************************************************************************)
(* Program constants                                                       *)
(***************************************************************************)
SLUG_MAX_LENGTH == 100
FILENAME_MAX == 80
GROQ_MAX_ATTEMPTS == 3
GROQ_BACKOFF == 10
PA_MAX_ATTEMPTS == 3
PA_BACKOFF == 10
IMG_MAX_ATTEMPTS == 2
IMG_BACKOFF == 5
LOOP_SLEEP == 12
NUM_PRODUCTS == 5
DEFAULT_TAG == "snapxacc-20"
PLACEHOLDER_URL == "https://via.placeholder.com/800x600/0d6efd/ffffff.png?text=No+Image"
PLACEHOLDER_FNAME == <<"placeholder-no-image", ".png">>
SAFE_NAME_MAX == 120

(***************************************************************************)
(* Characters and strings                                                  *)
(***************************************************************************)
Chars == {"a", "A", "_", "-", " ", "!"}

Lower(c) == IF c = "A" THEN "a" ELSE IF c = "B" THEN "b" ELSE c

\* \w of Python's re: letters, digits, underscore
IsWord(c) ==
    c \in {"a", "b", "c", "d", "o", "p", "r", "t", "u", "x", "A", "B", "0", "1", "_"}

\* \s of Python's re
IsSpace(c) == c \in {" "}

Min(a, b) == IF a < b THEN a ELSE b

\* s[:n]
Prefix(s, n) == SubSeq(s, 1, Min(n, Len(s)))

\* s.strip(ch)
Strip(s, ch) ==
    LET keep == {i \in 1..Len(s) : s[i] # ch}
    IN  IF keep = {} THEN <<>>
        ELSE LET lo == CHOOSE i \in keep : \A j \in keep : i <= j
                 hi == CHOOSE i \in keep : \A j \in keep : j <= i
             IN  SubSeq(s, lo, hi)

\* the positions of s, in order
Indices(s) == [i \in 1..Len(s) |-> i]

\* re.sub(r"\s+", "-", s): a run of whitespace becomes one dash
SubSpaces(s) ==
    LET first == SelectSeq(Indices(s),
                     LAMBDA i : ~(IsSpace(s[i]) /\ i > 1 /\ IsSpace(s[i-1])))
    IN  [k \in 1..Len(first) |->
            IF IsSpace(s[first[k]]) THEN "-" ELSE s[first[k]]]

\* re.sub(r"-+", "-", s): a run of dashes becomes one dash
SubDashes(s) ==
    LET first == SelectSeq(Indices(s),
                     LAMBDA i : ~(s[i] = "-" /\ i > 1 /\ s[i-1] = "-"))
    IN  [k \in 1..Len(first) |-> s[first[k]]]

slugify(text, max_length) ==
    LET lowered == [i \in 1..Len(text) |-> Lower(text[i])]
        kept == SelectSeq(lowered, LAMBDA c : IsWord(c) \/ IsSpace(c) \/ c = "-")
    IN  Strip(Prefix(SubDashes(SubSpaces(kept)), max_length), "-")

\* generate_review: filename_base = slugify(title) or slugify(product_name)
filename_base(title, product_name) ==
    IF slugify(title, SLUG_MAX_LENGTH) # <<>>
    THEN slugify(title, SLUG_MAX_LENGTH)
    ELSE slugify(product_name, SLUG_MAX_LENGTH)

\* generate_review: filename = f"{filename_base[:80]}.html"
review_filename(title, product_name) ==
    Append(Prefix(filename_base(title, product_name), FILENAME_MAX), ".html")

\* urllib.parse.quote_plus on the characters of the model
QuoteChar(c) ==
    IF c = " " THEN "+"
    ELSE IF IsWord(c) \/ c = "-" THEN c
    ELSE IF c = "!" THEN "%21"
    ELSE "%XX"

quote_plus(s) == [i \in 1..Len(s) |-> QuoteChar(s[i])]

(***************************************************************************)
(* retryable (lines 56-71): one turn of wrapper's loop, given whether the  *)
(* call of fn returned (ok) or raised.                                     *)
(***************************************************************************)
\* a slip: ">" for ">=" gives one call too many
wrapper_one_more(max_attempts, backoff, att, ok) ==
    IF ok
    THEN [outcome |-> "return", attempt |-> att, sleep |-> 0]
    ELSE IF att + 1 > max_attempts
         THEN [outcome |-> "raise", attempt |-> att + 1, sleep |-> 0]
         ELSE [outcome |-> "retry", attempt |-> att + 1,
               sleep |-> backoff * 2^att]

wrapper(max_attempts, backoff, att, ok) ==
    IF ok
    THEN [outcome |-> "return", attempt |-> att, sleep |-> 0]
    ELSE IF att + 1 >= max_attempts
         THEN [outcome |-> "raise", attempt |-> att + 1, sleep |-> 0]
         ELSE [outcome |-> "retry", attempt |-> att + 1,
               sleep |-> backoff * 2^att]

(***************************************************************************)
(* Values the environment can supply                                       *)
(***************************************************************************)
Credentials == {"GROQ_API_KEY", "PA_ACCESS_KEY", "PA_SECRET_KEY"}

EnvSet ==
    [GROQ_API_KEY : {"unset", "empty", "set"},
     PA_ACCESS_KEY : {"unset", "empty", "set"},
     PA_SECRET_KEY : {"unset", "empty", "set"},
     AFFILIATE_TAG : {"unset", "mytag-20"}]

\* os.getenv("AFFILIATE_TAG", "snapxacc-20")
AFFILIATE_TAG == IF env.AFFILIATE_TAG = "unset" THEN DEFAULT_TAG ELSE env.AFFILIATE_TAG

\* a slip: "is not None" for truthiness lets an empty secret through
secrets_not_none ==
    /\ env.GROQ_API_KEY # "unset"
    /\ env.PA_ACCESS_KEY # "unset"
    /\ env.PA_SECRET_KEY # "unset"

\* all([GROQ_API_KEY, PA_ACCESS_KEY, PA_SECRET_KEY]): None and "" are falsy
secrets_present ==
    /\ env.GROQ_API_KEY = "set"
    /\ env.PA_ACCESS_KEY = "set"
    /\ env.PA_SECRET_KEY = "set"

\* (name, search term) pairs the LLM can suggest
Idea1 == [name |-> <<"A", "b">>, term |-> <<"a", " ", "b">>]
Idea2 == [name |-> <<"!">>, term |-> <<"c", "!">>]
Ideas == {Idea1, Idea2}

\* lines of the LLM's answer: "Name | term", or a line the parser skips
AnswerLines ==
    {[kind |-> "pair", idea |-> i] : i \in Ideas}
        \cup {[kind |-> "bullet", idea |-> Idea1]}

SeqsUpTo(S, n) == UNION {[1..k -> S] : k \in 0..n}

RawAnswers == SeqsUpTo(AnswerLines, MaxLines)

\* image URLs; name is the last component of the URL's path
NoUrl == [host |-> "", name |-> <<>>]
ImageUrls == {[host |-> "m.media-amazon.com", name |-> <<"x", ".jpg">>]}

\* values of direct_link
NoLink == [kind |-> "none", q |-> <<>>, tag |-> ""]
DetailLink == [kind |-> "detail", q |-> <<>>, tag |-> ""]
NonStrLink == [kind |-> "nonstr", q |-> <<>>, tag |-> ""]

\* f"https://www.amazon.com/s?k={quote_plus(search_term)}&tag={AFFILIATE_TAG}"
SearchLink(search_term, tag) ==
    [kind |-> "search", q |-> quote_plus(search_term), tag |-> tag]

ApiTitle == <<"A", "b", "!">>

\* items[0] of a PA-API answer.  ItemInfo / Images = "bad": the field is
\* present but null or not a dict, so .get on it raises AttributeError.
\* The items carry one title field (ItemInfo.Title.DisplayValue) and one
\* image field (Images.Primary.Large.URL); <<>>, NoLink, NoUrl: absent.
Items ==
    [ItemInfo : {"ok", "bad"},
     DisplayValue : {<<>>, ApiTitle},
     DetailPageURL : {NoLink, DetailLink, NonStrLink},
     Images : {"ok", "bad"},
     Large : {NoUrl} \cup ImageUrls]

NoItem ==
    [ItemInfo |-> "ok", DisplayValue |-> <<>>, DetailPageURL |-> NoLink,
     Images |-> "ok", Large |-> NoUrl]

\* resp.json() of a 200 answer. shape "bad": "SearchResult" is null or the
\* answer is a list, so lines 297-302 raise; "noitems": no Items
Responses ==
    {[shape |-> "bad", item |-> NoItem], [shape |-> "noitems", item |-> NoItem]}
        \cup {[shape |-> "item", item |-> it] : it \in Items}

DetailOutcomes ==
    {[ok |-> FALSE, image |-> NoUrl], [ok |-> TRUE, image |-> NoUrl]}
        \cup {[ok |-> TRUE, image |-> u] : u \in ImageUrls}

OldChildren(n) == [i \in 1..n |-> [kind |-> "old", id |-> i, href |-> <<>>,
                                   name |-> <<>>, img |-> <<>>]]

IndexSet ==
    {[exists |-> FALSE, grid |-> FALSE, children |-> <<>>],
     [exists |-> TRUE, grid |-> FALSE, children |-> <<>>]}
        \cup {[exists |-> TRUE, grid |-> TRUE, children |-> OldChildren(MaxOld)]}

NoLoc ==
    [product_name |-> <<>>, search_term |-> <<>>, api_failed |-> FALSE,
     has_item |-> FALSE, item |-> NoItem, title |-> <<>>, direct_link |-> NoLink, image_url |-> NoUrl,
     downloaded_fname |-> <<>>, review_image_src |-> <<>>,
     homepage_image_src |-> <<>>, content |-> "", filename |-> <<>>,
     raised |-> FALSE]

NoCall == [target |-> "none", ok |-> TRUE]
NoHarness == [fn |-> "none"]

(***************************************************************************)
(* Pure parts of the script                                                *)
(***************************************************************************)
\* get_trending_products, lines 254-265: keep "Name | term" lines, at most num
RECURSIVE parse_products(_, _, _)
parse_products(raw, num, acc) ==
    IF raw = <<>> \/ Len(acc) >= num THEN acc
    ELSE IF Head(raw).kind = "pair"
         THEN parse_products(Tail(raw), num, Append(acc, Head(raw).idea))
         ELSE parse_products(Tail(raw), num, acc)

IsExt(c) == c \in {".jpg", ".png", ".gif"}

\* safe_filename_from_url, lines 73-87
safe_filename_from_url(url, fallback) ==
    LET name0 == IF url.name = <<>> THEN fallback ELSE url.name
        name1 == IF \E i \in 1..Len(name0) : IsExt(name0[i])
                 THEN name0 ELSE Append(name0, ".jpg")
        name2 == [i \in 1..Len(name1) |->
                    IF IsWord(name1[i]) \/ name1[i] = "-" \/ IsExt(name1[i])
                    THEN name1[i] ELSE "-"]
    IN  Prefix(name2, SAFE_NAME_MAX)

\* generate_review, lines 295-311: items[0] of the answer, or None
first_item(api_result) == api_result.shape = "item"

\* generate_review, lines 316-356: one try block around the three facts.
\* An exception leaves every assignment after it undone.
parse_item(item, title, direct_link) ==
    IF item.ItemInfo = "bad"
    THEN [title |-> title, direct_link |-> direct_link, image_url |-> NoUrl]
    ELSE LET t == IF item.DisplayValue # <<>> THEN item.DisplayValue ELSE title
             l == IF item.DetailPageURL # NoLink THEN item.DetailPageURL
                  ELSE direct_link
         IN  IF item.Images = "bad"
             THEN [title |-> t, direct_link |-> l, image_url |-> NoUrl]
             ELSE [title |-> t, direct_link |-> l,
                   image_url |-> item.Large]

\* lines 402-408
review_image_src(downloaded_fname) ==
    IF downloaded_fname # <<>> THEN <<"images/">> \o downloaded_fname
    ELSE <<PLACEHOLDER_URL>>

homepage_image_src(downloaded_fname) ==
    IF downloaded_fname # <<>> THEN <<"reviews/images/">> \o downloaded_fname
    ELSE <<PLACEHOLDER_URL>>

Reverse(s) == [i \in 1..Len(s) |-> s[Len(s) + 1 - i]]

\* update_homepage, lines 488-503: the card of one entry of new_reviews
Card(r) ==
    [kind |-> "card", id |-> 0, href |-> <<"reviews/">> \o r[1],
     name |-> r[2], img |-> r[3]]

\* update_homepage, lines 487-505: for ... in reversed(new_reviews):
\* grid.insert(0, card).  rs is what is left of the reversed list.
RECURSIVE insert_cards(_, _)
insert_cards(children, rs) ==
    IF rs = <<>> THEN children
    ELSE insert_cards(<<Card(Head(rs))>> \o children, Tail(rs))

\* a slip: the loop without reversed()
update_homepage_unreversed(ix, nr) ==
    IF ~ix.exists THEN ix
    ELSE IF ~ix.grid THEN ix
    ELSE [ix EXCEPT !.children = insert_cards(ix.children, nr)]

update_homepage(ix, nr) ==
    IF ~ix.exists THEN ix
    ELSE IF ~ix.grid THEN ix
    ELSE [ix EXCEPT !.children = insert_cards(ix.children, Reverse(nr))]

(***************************************************************************)
(* The run                                                                 *)
(***************************************************************************)
Init ==
    /\ env \in EnvSet
    /\ pc = "load"
    /\ dirs = {}
    /\ reviews = <<>>
    /\ images = <<>>
    /\ index \in IndexSet
    /\ index_before = index
    /\ products = <<>>
    /\ idx = 0
    /\ new_reviews = <<>>
    /\ loc = NoLoc
    /\ attempt = 0
    /\ last_call = NoCall
    /\ slept = 0
    /\ call = NoHarness
    /\ ret = NoHarness

\* lines 32-44: read the secrets, raise ValueError or create the directories
ModuleLoad ==
    /\ pc = "load"
    /\ IF secrets_present
       THEN /\ dirs' = {"reviews", "reviews/images"}
            /\ pc' = "get_trending_products"
       ELSE /\ dirs' = dirs
            /\ pc' = "aborted"
    /\ UNCHANGED <<env, reviews, images, index, index_before, products, idx,
                   new_reviews, loc, attempt, last_call, slept, call, ret>>

\* main, lines 532-538: what follows the for loop
after_loop(nr) == IF nr # <<>> THEN "update_homepage" ELSE "done"

\* main, line 523: the next iteration of the for loop, or the loop's end
next_pc(i, nr) ==
    IF i < Len(products) THEN "pa_api_search_items" ELSE after_loop(nr)

\* main, lines 516-520 with get_trending_products (244-268): one call of
\* generate_with_groq under retryable
TrendingCall ==
    /\ pc = "get_trending_products"
    /\ \E ok \in BOOLEAN :
         LET w == wrapper(GROQ_MAX_ATTEMPTS, GROQ_BACKOFF, attempt, ok)
         IN  /\ last_call' = [target |-> "groq", ok |-> ok]
             /\ slept' = w.sleep
             /\ CASE w.outcome = "retry" ->
                       /\ attempt' = w.attempt
                       /\ UNCHANGED <<pc, products, idx>>
                  [] w.outcome = "raise" ->
                       \* main's except: print and return
                       /\ attempt' = 0
                       /\ pc' = "done"
                       /\ UNCHANGED <<products, idx>>
                  [] OTHER ->
                       \E raw \in RawAnswers :
                         LET ps == parse_products(raw, NUM_PRODUCTS, <<>>)
                         IN  /\ attempt' = 0
                             /\ IF ps = <<>>
                                THEN \* RuntimeError("No products returned")
                                     /\ pc' = "done"
                                     /\ UNCHANGED <<products, idx>>
                                ELSE /\ products' = ps
                                     /\ idx' = 1
                                     /\ pc' = "pa_api_search_items"
    /\ UNCHANGED <<env, dirs, reviews, images, index, index_before,
                   new_reviews, loc, call, ret>>

\* a slip: the search URL built from the product name
NewLoc_name_in_link(p) ==
    [NoLoc EXCEPT !.product_name = p.name, !.search_term = p.term,
                  !.title = p.name,
                  !.direct_link = SearchLink(p.name, AFFILIATE_TAG)]

\* generate_review, lines 288 and 314: the defaults of title and direct_link
NewLoc(p) ==
    [NoLoc EXCEPT !.product_name = p.name, !.search_term = p.term,
                  !.title = p.name,
                  !.direct_link = SearchLink(p.term, AFFILIATE_TAG)]

\* main, lines 529-530: generate_review raised; no sleep, next product
FailPass(l) ==
    /\ loc' = [l EXCEPT !.raised = TRUE]
    /\ idx' = idx + 1
    /\ pc' = next_pc(idx, new_reviews)

\* generate_review, lines 287-359, once pa_api_search_items is over.
\* api_failed: the call raised and api_result stayed None.
AfterLookup(api_failed, api_result) ==
    LET l0 == [NewLoc(products[idx]) EXCEPT !.api_failed = api_failed]
    IN  IF ~api_failed /\ api_result.shape = "bad"
        THEN FailPass(l0)
        ELSE LET f == IF ~api_failed /\ first_item(api_result)
                      THEN parse_item(api_result.item, l0.title, l0.direct_link)
                      ELSE [title |-> l0.title, direct_link |-> l0.direct_link,
                            image_url |-> NoUrl]
                 l1 == [l0 EXCEPT !.has_item = ~api_failed /\ first_item(api_result),
                                  !.item = api_result.item,
                                  !.title = f.title,
                                  !.direct_link = f.direct_link,
                                  !.image_url = f.image_url]
             IN  IF f.image_url # NoUrl
                 THEN /\ loc' = l1
                      /\ pc' = "download_image"
                      /\ idx' = idx
                 ELSE IF f.direct_link.kind = "nonstr"
                      THEN \* direct_link.startswith: AttributeError
                           FailPass(l1)
                      ELSE /\ loc' = l1
                           /\ pc' = "detail_fetch"
                           /\ idx' = idx

\* generate_review, line 283: one call of pa_api_search_items under retryable
PaCall ==
    /\ pc = "pa_api_search_items"
    /\ \E ok \in BOOLEAN :
         LET w == wrapper(PA_MAX_ATTEMPTS, PA_BACKOFF, attempt, ok)
         IN  /\ last_call' = [target |-> "paapi", ok |-> ok]
             /\ slept' = w.sleep
             /\ CASE w.outcome = "retry" ->
                       /\ attempt' = w.attempt
                       /\ loc' = NewLoc(products[idx])
                       /\ UNCHANGED <<pc, idx>>
                  [] w.outcome = "raise" ->
                       /\ attempt' = 0
                       /\ AfterLookup(TRUE, [shape |-> "noitems", item |-> NoItem])
                  [] OTHER ->
                       /\ attempt' = 0
                       /\ \E resp \in Responses : AfterLookup(FALSE, resp)
    /\ UNCHANGED <<env, dirs, reviews, images, index, index_before, products,
                   new_reviews, call, ret>>

\* generate_review, lines 359-375: requests.get(direct_link), no retry
DetailFetch ==
    /\ pc = "detail_fetch"
    /\ \E o \in DetailOutcomes :
         /\ last_call' = [target |-> "detail", ok |-> o.ok]
         /\ loc' = [loc EXCEPT !.image_url = o.image, !.item = NoItem]
         /\ pc' = IF o.image # NoUrl THEN "download_image" ELSE "placeholder"
    /\ slept' = 0
    /\ UNCHANGED <<env, dirs, reviews, images, index, index_before, products,
                   idx, new_reviews, attempt, call, ret>>

\* lines 399-408 once downloaded_fname is known
WithImage(l, fname) ==
    [l EXCEPT !.item = NoItem,
              !.downloaded_fname = fname,
              !.review_image_src = review_image_src(fname),
              !.homepage_image_src = homepage_image_src(fname)]

\* download_image_to_reviews, lines 202-239, without its decorator.
\* o: "bad_status" (or any exception before the file is opened), "partial"
\* (an exception while the chunks are written), "ok".  The function's own
\* except clause turns every exception into a None result.
download_image_to_reviews(url, fallback_basename, o, imgs) ==
    LET fname == safe_filename_from_url(url, fallback_basename)
    IN  CASE o = "bad_status" ->
               [raised |-> FALSE, result |-> <<>>, images |-> imgs]
          [] o = "partial" ->
               [raised |-> FALSE, result |-> <<>>,
                images |-> (fname :> "partial") @@ imgs]
          [] OTHER ->
               [raised |-> FALSE, result |-> fname,
                images |-> IF fname \in DOMAIN imgs THEN imgs
                           ELSE (fname :> "complete") @@ imgs]

\* what the image server can do: the body is only read when the file
\* does not exist yet
DownloadOutcomes(url, fallback_basename, imgs) ==
    IF safe_filename_from_url(url, fallback_basename) \in DOMAIN imgs
    THEN {"bad_status", "ok"}
    ELSE {"bad_status", "partial", "ok"}

ProductFallback == <<"p", "r", "o", "d", "u", "c", "t">>

\* generate_review, line 380: slugify(title) or "product"
fallback_basename(title) ==
    IF slugify(title, SLUG_MAX_LENGTH) # <<>>
    THEN slugify(title, SLUG_MAX_LENGTH) ELSE ProductFallback

\* generate_review, lines 379-380 and 399-408
DownloadImage ==
    /\ pc = "download_image"
    /\ \E o \in DownloadOutcomes(loc.image_url, fallback_basename(loc.title), images) :
         LET r == download_image_to_reviews(loc.image_url,
                                            fallback_basename(loc.title), o, images)
             w == wrapper(IMG_MAX_ATTEMPTS, IMG_BACKOFF, attempt, ~r.raised)
         IN  /\ last_call' = [target |-> "image", ok |-> (o = "ok")]
             /\ slept' = w.sleep
             /\ images' = r.images
             /\ CASE w.outcome = "retry" ->
                       /\ attempt' = w.attempt
                       /\ UNCHANGED <<pc, loc, idx>>
                  [] w.outcome = "raise" ->
                       /\ attempt' = 0
                       /\ FailPass(loc)
                  [] OTHER ->
                       /\ attempt' = 0
                       /\ loc' = WithImage(loc, r.result)
                       /\ pc' = "generate_with_groq"
                       /\ idx' = idx
    /\ UNCHANGED <<env, dirs, reviews, index, index_before, products,
                   new_reviews, call, ret>>

\* generate_review, lines 381-397 and 399-408: the placeholder image
Placeholder ==
    /\ pc = "placeholder"
    /\ \/ /\ PLACEHOLDER_FNAME \in DOMAIN images
          /\ loc' = WithImage(loc, PLACEHOLDER_FNAME)
          /\ UNCHANGED <<images, last_call, slept>>
       \/ /\ PLACEHOLDER_FNAME \notin DOMAIN images
          /\ \E o \in {"ok", "bad_status", "error"} :
               /\ last_call' = [target |-> "placeholder", ok |-> (o = "ok")]
               /\ slept' = 0
               /\ IF o = "ok"
                  THEN /\ images' = (PLACEHOLDER_FNAME :> "complete") @@ images
                       /\ loc' = WithImage(loc, PLACEHOLDER_FNAME)
                  ELSE /\ images' = images
                       /\ loc' = WithImage(loc, <<>>)
    /\ pc' = "generate_with_groq"
    /\ UNCHANGED <<env, dirs, reviews, index, index_before, products, idx,
                   new_reviews, attempt, call, ret>>

\* the page generate_review writes (lines 437-464): what tells two pages
\* apart for the checks below is the title and the image they show
Page(l, content) ==
    [title |-> l.title, img |-> l.review_image_src]

\* a slip: no fallback copy when the call has failed
review_content_none(returned) == IF returned THEN "llm" ELSE ""

\* generate_review, lines 418-429: the LLM's copy, or the fixed fallback
review_content(returned) == IF returned THEN "llm" ELSE "fallback"

\* generate_review, lines 417-468 and main, lines 525-528: one call of
\* generate_with_groq under retryable; once it is over the page is
\* written, the review is appended and main sleeps
ReviewCall ==
    /\ pc = "generate_with_groq"
    /\ \E ok \in BOOLEAN :
         LET w == wrapper(GROQ_MAX_ATTEMPTS, GROQ_BACKOFF, attempt, ok)
             content == review_content(w.outcome = "return")
             filename == review_filename(loc.title, loc.product_name)
         IN  /\ last_call' = [target |-> "groq", ok |-> ok]
             /\ IF w.outcome = "retry"
                THEN /\ attempt' = w.attempt
                     /\ slept' = w.sleep
                     /\ UNCHANGED <<pc, loc, idx, reviews, new_reviews>>
                ELSE /\ attempt' = 0
                     /\ loc' = [loc EXCEPT !.content = content,
                                           !.filename = filename]
                     /\ reviews' = (filename :> Page(loc, content)) @@ reviews
                     /\ new_reviews' = Append(new_reviews,
                            <<filename, loc.title, loc.homepage_image_src>>)
                     /\ slept' = LOOP_SLEEP
                     /\ idx' = idx + 1
                     /\ pc' = next_pc(idx, new_reviews')
    /\ UNCHANGED <<env, dirs, images, index, index_before, products, call, ret>>

\* main, lines 532-538; generate_review's frame is gone by then
UpdateHomepage ==
    /\ pc = "update_homepage"
    /\ index' = update_homepage(index, new_reviews)
    /\ pc' = "done"
    /\ loc' = NoLoc
    /\ UNCHANGED <<env, dirs, reviews, images, index_before, products, idx,
                   new_reviews, attempt, last_call, slept, call, ret>>

Next ==
    \/ ModuleLoad
    \/ TrendingCall
    \/ PaCall
    \/ DetailFetch
    \/ DownloadImage
    \/ Placeholder
    \/ ReviewCall
    \/ UpdateHomepage

Spec == Init /\ [][Next]_vars

(***************************************************************************)
(* retryable on its own: a function decorated with                         *)
(* retryable(max_attempts, backoff) is called; each call of the function   *)
(* returns or raises as the environment decides.                           *)
(***************************************************************************)
Backoffs == {1, IMG_BACKOFF, GROQ_BACKOFF}

\* the script itself has not been started
IdleRun ==
    /\ env = [GROQ_API_KEY |-> "set", PA_ACCESS_KEY |-> "set",
              PA_SECRET_KEY |-> "set", AFFILIATE_TAG |-> "unset"]
    /\ pc = "load"
    /\ dirs = {}
    /\ reviews = <<>>
    /\ images = <<>>
    /\ index = [exists |-> FALSE, grid |-> FALSE, children |-> <<>>]
    /\ index_before = index
    /\ products = <<>>
    /\ idx = 0
    /\ new_reviews = <<>>
    /\ loc = NoLoc
    /\ attempt = 0
    /\ last_call = NoCall
    /\ slept = 0

InitRetry ==
    /\ IdleRun
    /\ call \in [fn : {"retryable"}, max_attempts : 1..MaxAttempts,
                 backoff : Backoffs]
    /\ ret = [fn |-> "retryable", status |-> "running", attempt |-> 0,
              calls |-> <<>>, sleeps |-> <<>>, raised_by |-> 0]

\* lines 60-69: one turn of the while loop
RetryCall ==
    /\ call.fn = "retryable"
    /\ ret.status = "running"
    /\ \E ok \in BOOLEAN :
         LET w == wrapper(call.max_attempts, call.backoff, ret.attempt, ok)
             n == Len(ret.calls) + 1
         IN  ret' = [fn |-> "retryable",
                     status |-> CASE w.outcome = "retry" -> "running"
                                  [] w.outcome = "raise" -> "raised"
                                  [] OTHER -> "returned",
                     attempt |-> w.attempt,
                     calls |-> Append(ret.calls, ok),
                     sleeps |-> IF w.outcome = "retry"
                                THEN Append(ret.sleeps, w.sleep) ELSE ret.sleeps,
                     raised_by |-> IF w.outcome = "raise" THEN n ELSE 0]
    /\ UNCHANGED <<runVars, call>>

NextRetry == RetryCall

SpecRetry == InitRetry /\ [][NextRetry]_vars

(***************************************************************************)
(* The file name of a review on its own (lines 431-433)                    *)
(***************************************************************************)
Pad(n) == [i \in 1..n |-> "a"]

PadLens == {0, FILENAME_MAX - 2, FILENAME_MAX - 1, SLUG_MAX_LENGTH - 1}

TitleInputs == {Pad(n) \o s : n \in PadLens, s \in SeqsUpTo(Chars, MaxSuffix)}

NameInputs == {<<>>, <<"!">>, <<"A", " ", "b">>}

InitSlug ==
    /\ IdleRun
    /\ call \in [fn : {"review_filename"}, title : TitleInputs,
                 product_name : NameInputs]
    /\ ret = [fn |-> "review_filename", done |-> FALSE, filename |-> <<>>]

FilenameCall ==
    /\ call.fn = "review_filename"
    /\ ~ret.done
    /\ ret' = [fn |-> "review_filename", done |-> TRUE,
               filename |-> review_filename(call.title, call.product_name)]
    /\ UNCHANGED <<runVars, call>>

NextSlug == FilenameCall

SpecSlug == InitSlug /\ [][NextSlug]_vars

(***************************************************************************)
(* Properties                                                              *)
(***************************************************************************)
\* generate_review has returned for the product in loc: its page is written
PassDone == loc.filename # <<>>

InPass == pc \in {"detail_fetch", "download_image", "placeholder",
                  "generate_with_groq"}

LastReview == new_reviews[Len(new_reviews)]

\* C1: when the PA-API lookup of a product fails on all of its attempts,
\* generate_review does not fail: it goes on with the product name as
\* title and the search URL of the search term, with the affiliate tag,
\* as purchase link, and it writes the product's page.
C1_LookupFailureContinues ==
    loc.api_failed =>
        /\ ~loc.raised
        /\ loc.title = loc.product_name
        /\ loc.direct_link = [kind |-> "search",
                              q |-> quote_plus(loc.search_term),
                              tag |-> AFFILIATE_TAG]
        /\ ~PassDone => InPass
        /\ PassDone =>
              /\ loc.filename \in DOMAIN reviews
              /\ reviews[loc.filename].title = loc.product_name
              /\ new_reviews # <<>>
              /\ LastReview[1] = loc.filename
              /\ LastReview[2] = loc.product_name

C1_Witness ==
    /\ loc.api_failed
    /\ PassDone
    /\ loc.search_term = Idea2.term
    /\ loc.filename \in DOMAIN reviews

\* the product-idea call has failed on all of its attempts
IdeasFailed ==
    /\ products = <<>>
    /\ last_call = [target |-> "groq", ok |-> FALSE]
    /\ attempt = 0

\* the review-copy call of the finished pass has failed on all of its
\* attempts: the fallback copy stands in and the page is written
ReviewCopyFallback ==
    (PassDone /\ ~last_call.ok) =>
        /\ loc.content = "fallback"
        /\ ~loc.raised
        /\ loc.filename \in DOMAIN reviews
        /\ new_reviews # <<>>
        /\ LastReview = <<loc.filename, loc.title, loc.homepage_image_src>>

C3_AbortsBeforeAnyEffect ==
    (\E k \in Credentials : env[k] # "set") =>
        /\ pc \in {"load", "aborted"}
        /\ last_call = NoCall
        /\ dirs = {}
        /\ reviews = <<>>
        /\ images = <<>>
        /\ index = index_before

C3_Witness ==
    /\ pc = "aborted"
    /\ env.GROQ_API_KEY = "set"
    /\ env.PA_ACCESS_KEY = "set"
    /\ env.PA_SECRET_KEY = "empty"

\* lines 316-356 have just run on an item of the API
PostParse == loc.has_item /\ pc \in {"detail_fetch", "download_image"}

\* C4 as stated: title, image URL and purchase link are defaulted
\* independently: a fact whose field is missing or malformed takes its
\* default, every other fact keeps the value the item gives.  (Stated
\* for items whose DetailPageURL is a string or absent.)
C4_Original ==
    (PostParse /\ loc.item.DetailPageURL # NonStrLink) =>
        /\ loc.title =
              IF loc.item.ItemInfo = "ok" /\ loc.item.DisplayValue # <<>>
              THEN loc.item.DisplayValue ELSE loc.product_name
        /\ loc.direct_link =
              IF loc.item.DetailPageURL = DetailLink THEN DetailLink
              ELSE [kind |-> "search", q |-> quote_plus(loc.search_term),
                    tag |-> AFFILIATE_TAG]
        /\ loc.image_url =
              IF loc.item.Images = "ok" THEN loc.item.Large ELSE NoUrl

\* the step about to be taken issues an HTTP request
MakesCall ==
    \/ pc \in {"get_trending_products", "pa_api_search_items", "detail_fetch",
               "download_image", "generate_with_groq"}
    \/ pc = "placeholder" /\ PLACEHOLDER_FNAME \notin DOMAIN images

\* C5 as stated: a request of any kind that fails is made again, after a
\* backoff sleep (here: the first request of an operation, when it fails,
\* is followed by a sleep and a second request of the same operation).
C5_Original ==
    [][(MakesCall /\ attempt = 0 /\ ~last_call'.ok)
          => (slept' > 0 /\ pc' = pc /\ attempt' = 1)]_vars

\* C6: a function under retryable(n, b), n >= 1, is called at most n
\* times; the first call that returns ends the loop; when all n calls
\* raise, the n-th call's exception propagates after exactly n-1 sleeps,
\* the k-th of b*2^(k-1); the loop never runs on past n calls.
C6_RetryBounded ==
    ret.fn = "retryable" =>
        LET n == call.max_attempts
            c == Len(ret.calls)
        IN  /\ c <= n
            /\ \A k \in 1..Len(ret.sleeps) :
                  ret.sleeps[k] = call.backoff * 2^(k-1)
            /\ \A j \in 1..(c-1) : ~ret.calls[j]
            /\ ret.status = "running" =>
                  /\ c < n
                  /\ Len(ret.sleeps) = c
                  /\ \A j \in 1..c : ~ret.calls[j]
            /\ ret.status = "returned" =>
                  /\ c >= 1
                  /\ ret.calls[c]
                  /\ Len(ret.sleeps) = c - 1
            /\ ret.status = "raised" =>
                  /\ c = n
                  /\ ~ret.calls[n]
                  /\ ret.raised_by = n
                  /\ Len(ret.sleeps) = n - 1

C6_Witness ==
    /\ ret.fn = "retryable"
    /\ ret.status = "raised"
    /\ call.max_attempts = GROQ_MAX_ATTEMPTS
    /\ call.backoff = GROQ_BACKOFF
    /\ ret.sleeps = <<10, 20>>

\* C7 as stated: whenever the lookup of a product other than the first is
\* about to be issued, the 1.2 s sleep is what came last, whether the pass
\* before succeeded or failed.
C7_Original ==
    (pc = "pa_api_search_items" /\ idx > 1 /\ attempt = 0) => slept = LOOP_SLEEP

\* C8 as stated: the file name is the slug of the title (of the product
\* name when that slug is empty) cut to 80 characters plus ".html", and
\* its base is a safe slug: not empty, lowercase word characters and
\* single dashes only, no dash first or last.
SafeSlug(b) ==
    /\ b # <<>>
    /\ \A i \in 1..Len(b) : b[i] = "-" \/ (IsWord(b[i]) /\ Lower(b[i]) = b[i])
    /\ \A i \in 1..(Len(b) - 1) : ~(b[i] = "-" /\ b[i+1] = "-")
    /\ b[1] # "-"
    /\ b[Len(b)] # "-"

C8_Original ==
    (ret.fn = "review_filename" /\ ret.done) =>
        LET st == slugify(call.title, SLUG_MAX_LENGTH)
            sn == slugify(call.product_name, SLUG_MAX_LENGTH)
            base == Prefix(IF st # <<>> THEN st ELSE sn, FILENAME_MAX)
        IN  /\ ret.filename = base \o <<".html">>
            /\ SafeSlug(SubSeq(ret.filename, 1, Len(ret.filename) - 1))

\* C9: on an index.html with a reviews grid, update_homepage puts one
\* card per entry of new_reviews at the start of the grid, in the order
\* of new_reviews, each linking to reviews/<filename>; the children the
\* grid had follow in their order.
C9_CardsFirstInOrder ==
    (pc = "done" /\ new_reviews # <<>> /\ index_before.exists /\ index_before.grid) =>
        LET n == Len(new_reviews)
            old == index_before.children
        IN  /\ Len(index.children) = n + Len(old)
            /\ \A i \in 1..n :
                  /\ index.children[i].kind = "card"
                  /\ index.children[i].href = <<"reviews/">> \o new_reviews[i][1]
                  /\ index.children[i].name = new_reviews[i][2]
                  /\ index.children[i].img = new_reviews[i][3]
            /\ \A j \in 1..Len(old) : index.children[n + j] = old[j]

C9_Witness ==
    /\ pc = "done"
    /\ index_before.grid
    /\ Len(index_before.children) >= 2
    /\ Len(new_reviews) >= 2
    /\ new_reviews[1] # new_reviews[2]
    /\ Len(index.children) = Len(new_reviews) + Len(index_before.children)

\* C10 as stated: no two reviews created in a run share a file name: the
\* number of reviews reported equals the number of distinct files written.
C10_Original == Cardinality(DOMAIN reviews) = Len(new_reviews)

\* the image file a page or card shows, when its src is a local path
\* ("images/<f>" in a review page, "reviews/images/<f>" in a homepage card);
\* <<>> when the src is the remote placeholder
LocalImage(src) ==
    IF Head(src) \in {"images/", "reviews/images/"} THEN Tail(src) ELSE <<>>

\* the image file reviews/images/<f> exists and holds a whole response body
CompleteImage(f) == f \in DOMAIN images /\ images[f] = "complete"

\* C11 as stated: whenever a written review page or a homepage card
\* references a local image path, the file reviews/images/<f> exists and
\* holds the complete body of a successful download; a download that failed
\* part-way, in this or an earlier product pass, never leaves behind a file
\* that a later pass reuses as its image.
C11_Original ==
    /\ \A f \in DOMAIN reviews :
         LocalImage(reviews[f].img) # <<>>
            => CompleteImage(LocalImage(reviews[f].img))
    /\ \A i \in 1..Len(new_reviews) :
         LocalImage(new_reviews[i][3]) # <<>>
            => CompleteImage(LocalImage(new_reviews[i][3]))

====
